---- MODULE Spec2Model ----
(***************************************************************************)
(* Huffman image codec of image_compressor.py (class ImageCompressor) and  *)
(* its use by main.py.  Strings of '0'/'1' are sequences over {0,1}; a     *)
(* Python dict is the sequence of its <<key, value>> items in insertion    *)
(* order; an optional object (None or a value) is <<>> or <<value>>.       *)
(***************************************************************************)
EXTENDS Integers, Sequences, FiniteSets, TLC

(* ------------------------------ bounds -------------------------------- *)
\* the images use at most NumSymbols distinct intensities
NumSymbols == 3
\* an image has 1 .. MaxLen pixels
MaxLen == 5
\* compress is called at most MaxCalls times on one instance
MaxCalls == 2

\* the largest 8-bit intensity (convert("L"), dtype=np.uint8)
MaxIntensity == 255

\* the intensities used, spread over 0 .. 255
SymbolAt(j) == (j * MaxIntensity) \div (NumSymbols - 1)
Symbols == {SymbolAt(j) : j \in 0 .. (NumSymbols - 1)}

VARIABLES
    input_files,    \* the images of the input directory: the samples of each
    huffman_codes,  \* self.huffman_codes: dict symbol -> code
    huffman_tree,   \* self.huffman_tree: None or the root node
    calls,          \* number of compress calls made on this instance
    pixel_array,    \* the samples of the last compress call
    stats,          \* the dict the last compress returned (<<>> before)
    encoded_data,   \* the bit string the last compress handed to save_compressed
    merges,         \* the merges the last build_huffman_tree performed
    bin_file,       \* bytes of <output>.bin (<<>>: no such file)
    codes_file,     \* items of <output>_codes.json (keys are decimal strings)
    flipped,        \* whether a payload bit of bin_file was altered after writing
    decoded,        \* outcome of the last decode_image call
    ref_run         \* what the first compress call of the behaviour persisted

vars == <<input_files, huffman_codes, huffman_tree, calls, pixel_array, stats, encoded_data,
          merges, bin_file, codes_file, flipped, decoded, ref_run>>

(* --------------------------- small helpers ---------------------------- *)
None == <<>>
Some(x) == <<x>>

\* HuffmanNode.value of an internal node (value=None)
NoValue == -1

Range(s) == {s[i] : i \in 1 .. Len(s)}

\* s[a:b] of Python, 0-based, for 0 <= a
Slice(s, a, b) ==
    LET hi == IF b > Len(s) THEN Len(s) ELSE b
    IN  IF hi <= a THEN <<>> ELSE SubSeq(s, a + 1, hi)

IsPrefix(a, b) == Len(a) <= Len(b) /\ SubSeq(b, 1, Len(a)) = a

\* "0" * n
RECURSIVE Zeros(_)
Zeros(n) == IF n <= 0 THEN <<>> ELSE <<0>> \o Zeros(n - 1)

\* position of key k in a dict (0 when absent)
RECURSIVE KeyIndexFrom(_, _, _)
KeyIndexFrom(d, k, i) ==
    IF i > Len(d) THEN 0
    ELSE IF d[i][1] = k THEN i ELSE KeyIndexFrom(d, k, i + 1)
KeyIndex(d, k) == KeyIndexFrom(d, k, 1)

HasKey(d, k) == KeyIndex(d, k) > 0
Keys(d) == {d[i][1] : i \in 1 .. Len(d)}

\* d[k] for a key that is present
Lookup(d, k) == d[KeyIndex(d, k)][2]

\* d[k] = v: an existing key keeps its place, a new key goes last
DictSet(d, k, v) ==
    IF HasKey(d, k) THEN [d EXCEPT ![KeyIndex(d, k)] = <<k, v>>]
    ELSE Append(d, <<k, v>>)

(* ----------------------------- HuffmanNode ---------------------------- *)
HuffmanNode(value, freq) ==
    [value |-> value, freq |-> freq, left |-> None, right |-> None]

\* HuffmanNode.__lt__
Lt(a, b) == a.freq < b.freq

(* ------------------------- heapq (0-based pos) ------------------------ *)
RECURSIVE SiftDownLoop(_, _, _, _)
SiftDownLoop(heap, startpos, pos, newitem) ==
    LET parentpos == (pos - 1) \div 2
    IN  IF pos > startpos /\ Lt(newitem, heap[parentpos + 1])
        THEN SiftDownLoop([heap EXCEPT ![pos + 1] = heap[parentpos + 1]],
                          startpos, parentpos, newitem)
        ELSE [heap EXCEPT ![pos + 1] = newitem]

siftdown(heap, startpos, pos) == SiftDownLoop(heap, startpos, pos, heap[pos + 1])

RECURSIVE SiftUpLoop(_, _, _, _)
SiftUpLoop(heap, startpos, pos, newitem) ==
    LET endpos   == Len(heap)
        childpos == 2 * pos + 1
        rightpos == childpos + 1
        smaller  == IF rightpos < endpos
                       /\ ~Lt(heap[childpos + 1], heap[rightpos + 1])
                    THEN rightpos ELSE childpos
    IN  IF childpos < endpos
        THEN SiftUpLoop([heap EXCEPT ![pos + 1] = heap[smaller + 1]],
                        startpos, smaller, newitem)
        ELSE siftdown([heap EXCEPT ![pos + 1] = newitem], startpos, pos)

siftup(heap, pos) == SiftUpLoop(heap, pos, pos, heap[pos + 1])

\* faulty variant: the item is appended and never sifted into place
heappush_NoSift(heap, item) == Append(heap, item)

heappush(heap, item) == siftdown(Append(heap, item), 0, Len(heap))

\* heappop of a non-empty heap: the item returned and the heap left
heappop(heap) ==
    LET lastelt == heap[Len(heap)]
        rest    == SubSeq(heap, 1, Len(heap) - 1)
    IN  IF Len(rest) > 0
        THEN [item |-> rest[1], heap |-> siftup([rest EXCEPT ![1] = lastelt], 0)]
        ELSE [item |-> lastelt, heap |-> rest]

(* ------------------------ calculate_frequencies ----------------------- *)
RECURSIVE CountFrom(_, _, _)
CountFrom(pixels, i, freqs) ==
    IF i > Len(pixels) THEN freqs
    ELSE LET p == pixels[i]
             n == IF HasKey(freqs, p) THEN Lookup(freqs, p) ELSE 0
         IN  CountFrom(pixels, i + 1, DictSet(freqs, p, n + 1))

calculate_frequencies(pixels) == CountFrom(pixels, 1, <<>>)

(* -------------------------- build_huffman_tree ------------------------ *)
RECURSIVE PushLeaves(_, _, _)
PushLeaves(frequencies, i, heap) ==
    IF i > Len(frequencies) THEN heap
    ELSE PushLeaves(frequencies, i + 1,
                    heappush(heap, HuffmanNode(frequencies[i][1], frequencies[i][2])))

Freqs(heap) == [i \in 1 .. Len(heap) |-> heap[i].freq]

\* one pass of the while loop: the node pushed back
Merge(left, right) ==
    [value |-> NoValue, freq |-> left.freq + right.freq,
     left |-> Some(left), right |-> Some(right)]

RECURSIVE MergeLoop(_, _)
MergeLoop(heap, log) ==
    IF Len(heap) > 1
    THEN LET p1    == heappop(heap)
             p2    == heappop(p1.heap)
             node  == Merge(p1.item, p2.item)
             after == heappush(p2.heap, node)
         IN  MergeLoop(after,
                       Append(log, [queue |-> Freqs(heap), left |-> p1.item.freq,
                                    right |-> p2.item.freq, sum |-> node.freq,
                                    after |-> Freqs(after)]))
    ELSE [root |-> heap[1], log |-> log]

\* faulty variant: the heap list is kept on the instance and never emptied
EmptyHeap_Leftover == huffman_tree

\* heap = []
EmptyHeap == <<>>

\* the root assigned to self.huffman_tree, and the merges made on the way
build_huffman_tree(frequencies) ==
    MergeLoop(PushLeaves(frequencies, 1, EmptyHeap), <<>>)

(* ------------------------ generate_huffman_codes ---------------------- *)
\* the assignment made at a leaf
AssignCode(codes, value, code) == DictSet(codes, value, code)

\* faulty variant: the right branch appends "0" like the left one
RightCode_SameBit(code) == Append(code, 0)

\* code + "0" and code + "1"
LeftCode(code) == Append(code, 0)
RightCode(code) == Append(code, 1)

RECURSIVE GenCodes(_, _, _)
GenCodes(codes, node, code) ==
    IF node.value # NoValue
    THEN AssignCode(codes, node.value, code)
    ELSE GenCodes(GenCodes(codes, node.left[1], LeftCode(code)),
                  node.right[1], RightCode(code))

\* self.huffman_codes after generate_huffman_codes() on the tree `root`
generate_huffman_codes(codes, root) == GenCodes(codes, root, <<>>)

(* ------------------------------ encode_image -------------------------- *)
RECURSIVE EncodeFrom(_, _, _)
EncodeFrom(codes, pixels, i) ==
    IF i > Len(pixels) THEN <<>>
    ELSE Lookup(codes, pixels[i]) \o EncodeFrom(codes, pixels, i + 1)

encode_image(codes, pixels) == EncodeFrom(codes, pixels, 1)

(* ----------------------- bytes and decimal strings -------------------- *)
\* int(byte, 2)
RECURSIVE BitsToInt(_)
BitsToInt(bits) ==
    IF Len(bits) = 0 THEN 0
    ELSE 2 * BitsToInt(SubSeq(bits, 1, Len(bits) - 1)) + bits[Len(bits)]

\* the binary digits of n, most significant first ("" for 0)
RECURSIVE BinDigits(_)
BinDigits(n) == IF n = 0 THEN <<>> ELSE Append(BinDigits(n \div 2), n % 2)

\* format(byte, '08b')
Format08b(n) == LET d == BinDigits(n) IN Zeros(8 - Len(d)) \o d

\* str(k) of a non-negative integer: its decimal digits
RECURSIVE DecDigits(_)
DecDigits(n) == IF n < 10 THEN <<n>> ELSE Append(DecDigits(n \div 10), n % 10)
Str(k) == DecDigits(k)

\* int(s) of a decimal digit string
RECURSIVE ParseInt(_)
ParseInt(s) ==
    IF Len(s) = 0 THEN 0
    ELSE 10 * ParseInt(SubSeq(s, 1, Len(s) - 1)) + s[Len(s)]

(* ----------------------------- save_compressed ------------------------ *)
\* faulty variant: no padding when the length is already a multiple of 8
PaddedLength_NoFullByte(encoded) == (8 - (Len(encoded) % 8)) % 8

PaddedLength(encoded) == 8 - (Len(encoded) % 8)

\* the byte_array built from the padded bit string
PackBytes(padded) ==
    [i \in 1 .. (Len(padded) + 7) \div 8 |->
        BitsToInt(Slice(padded, 8 * (i - 1), 8 * i))]

\* contents of <output>.bin: the padding byte, then the packed bytes
BinContents(encoded) ==
    <<PaddedLength(encoded)>> \o PackBytes(encoded \o Zeros(PaddedLength(encoded)))

\* contents of <output>_codes.json: {str(k): v for k, v in codes.items()}
RECURSIVE DumpCodes(_, _, _)
DumpCodes(codes, i, out) ==
    IF i > Len(codes) THEN out
    ELSE DumpCodes(codes, i + 1, DictSet(out, Str(codes[i][1]), codes[i][2]))

CodesContents(codes) == DumpCodes(codes, 1, <<>>)

(* ------------------------------- decode_image ------------------------- *)
\* codes = {int(k): v for k, v in codes.items()}
RECURSIVE LoadCodes(_, _, _)
LoadCodes(items, i, out) ==
    IF i > Len(items) THEN out
    ELSE LoadCodes(items, i + 1, DictSet(out, ParseInt(items[i][1]), items[i][2]))

\* padding_length = int.from_bytes(f.read(1), 'big')
PaddingByte(file) == IF Len(file) = 0 THEN 0 ELSE file[1]
ByteData(file) == Slice(file, 1, Len(file))

RECURSIVE ExpandBytes(_, _)
ExpandBytes(bytes, i) ==
    IF i > Len(bytes) THEN <<>>
    ELSE Format08b(bytes[i]) \o ExpandBytes(bytes, i + 1)

\* binary_data[:-padding_length] if padding_length > 0 else binary_data
Unpad(binary_data, padding_length) ==
    IF padding_length > 0
    THEN Slice(binary_data, 0, Len(binary_data) - padding_length)
    ELSE binary_data

\* reverse_codes = {v: k for k, v in codes.items()}
RECURSIVE ReverseCodes(_, _, _)
ReverseCodes(codes, i, out) ==
    IF i > Len(codes) THEN out
    ELSE ReverseCodes(codes, i + 1, DictSet(out, codes[i][2], codes[i][1]))

\* the for loop over binary_data: decoded_pixels and the final current_code
RECURSIVE DecodeLoop(_, _, _, _, _)
DecodeLoop(reverse_codes, bits, i, current_code, decoded_pixels) ==
    IF i > Len(bits)
    THEN [pixels |-> decoded_pixels, current_code |-> current_code]
    ELSE LET cur == Append(current_code, bits[i])
         IN  IF HasKey(reverse_codes, cur)
             THEN DecodeLoop(reverse_codes, bits, i + 1, <<>>,
                             Append(decoded_pixels, Lookup(reverse_codes, cur)))
             ELSE DecodeLoop(reverse_codes, bits, i + 1, cur, decoded_pixels)

\* faulty variant: surplus items are dropped instead of refused
CanReshape_Truncating(n, rows, cols) == n >= rows * cols

\* numpy: an array of n items reshapes to (rows, cols) only when n = rows * cols
CanReshape(n, rows, cols) == n = rows * cols

\* decoded_array.reshape((rows, cols)), row-major
Reshape(pixels, rows, cols) ==
    [r \in 1 .. rows |-> [c \in 1 .. cols |-> pixels[(r - 1) * cols + c]]]

\* outcome of decode_image(bin, codes, output, original_size); original_size is
\* (width, height) and original_size[::-1] is (height, width)
decode_image(file, items, original_size) ==
    LET codes         == LoadCodes(items, 1, <<>>)
        binary_data   == Unpad(ExpandBytes(ByteData(file), 1), PaddingByte(file))
        reverse_codes == ReverseCodes(codes, 1, <<>>)
        loop          == DecodeLoop(reverse_codes, binary_data, 1, <<>>, <<>>)
        rows          == original_size[2]
        cols          == original_size[1]
        raised        == IF CanReshape(Len(loop.pixels), rows, cols)
                         THEN "" ELSE "ValueError"
    IN  [status        |-> IF raised = "" THEN "saved" ELSE "error",
         error         |-> raised,
         size          |-> original_size,
         binary_data   |-> binary_data,
         pixels        |-> loop.pixels,
         current_code  |-> loop.current_code,
         image         |-> IF raised = "" THEN Reshape(loop.pixels, rows, cols)
                           ELSE <<>>]

(* -------------------------------- compress ---------------------------- *)
\* self.huffman_codes of a newly constructed ImageCompressor
NewCodes == <<>>

\* everything one compress call computes from the instance's codes and the image
\* (of the stats returned, the two bit counts)
compress(codes, pixels) ==
    LET frequencies == calculate_frequencies(pixels)
        built       == build_huffman_tree(frequencies)
        new_codes   == generate_huffman_codes(codes, built.root)
        encoded     == encode_image(new_codes, pixels)
    IN  [frequencies   |-> frequencies,
         huffman_tree  |-> Some(built.root),
         merges        |-> built.log,
         huffman_codes |-> new_codes,
         encoded_data  |-> encoded,
         bin_file      |-> BinContents(encoded),
         codes_file    |-> CodesContents(new_codes),
         stats         |-> [original_bits   |-> Len(pixels) * 8,
                            compressed_bits |-> Len(encoded)]]

(* ------------------------------- the inputs --------------------------- *)
\* read_image: pixel_array, the flattened image, of 1 .. MaxLen samples
AllImages == UNION {[1 .. n -> Symbols] : n \in 1 .. MaxLen}

\* The codec uses an intensity only as a dict key, so every image is, up to a
\* renaming of its intensities, one whose intensities first occur in
\* increasing order; these are the images compressed one at a time.
FirstOccurrencesAscend(p) ==
    \A i \in 1 .. Len(p) :
        \A v \in Symbols : v < p[i] => \E j \in 1 .. (i - 1) : p[j] = v
Images == {p \in AllImages : FirstOccurrencesAscend(p)}

\* the original_size = (width, height) arguments decode_image is called with
AnySize == {sz \in (1 .. MaxLen) \X (1 .. MaxLen) : sz[1] * sz[2] <= MaxLen}

NotDecoded ==
    [status |-> "none", error |-> "", size |-> <<0, 0>>, binary_data |-> <<>>,
     pixels |-> <<>>, current_code |-> <<>>, image |-> <<>>]

(* -------------------------------- actions ----------------------------- *)
\* a newly constructed ImageCompressor, nothing compressed or decoded yet
Fresh ==
    /\ huffman_codes = <<>>
    /\ huffman_tree = None
    /\ calls = 0
    /\ pixel_array = <<>>
    /\ stats = <<>>
    /\ encoded_data = <<>>
    /\ merges = <<>>
    /\ bin_file = <<>>
    /\ codes_file = <<>>
    /\ flipped = FALSE
    /\ decoded = NotDecoded
    /\ ref_run = None

\* one image in the input directory
Init == Fresh /\ \E img \in Images : input_files = <<img>>

\* two images in the input directory
InitTwoFiles == Fresh /\ \E a \in Images, b \in AllImages : input_files = <<a, b>>

\* compressor = ImageCompressor()
NewInstance ==
    /\ calls > 0
    /\ huffman_codes' = NewCodes
    /\ huffman_tree' = None
    /\ calls' = 0
    /\ UNCHANGED <<input_files, pixel_array, stats, encoded_data, merges, bin_file,
                   codes_file, flipped, decoded, ref_run>>

\* compressor.compress(input_path, output_path) on file number `choice`
Compress(choice) ==
    /\ calls < MaxCalls
    /\ \E c \in {compress(huffman_codes, input_files[choice])} :
        /\ huffman_codes' = c.huffman_codes
        /\ huffman_tree' = c.huffman_tree
        /\ merges' = c.merges
        /\ encoded_data' = c.encoded_data
        /\ bin_file' = c.bin_file
        /\ codes_file' = c.codes_file
        /\ stats' = c.stats
        /\ ref_run' = IF ref_run = None
                      THEN Some([pixels      |-> input_files[choice],
                                 frequencies |-> c.frequencies,
                                 huffman_codes |-> c.huffman_codes,
                                 bin_file    |-> c.bin_file,
                                 codes_file  |-> c.codes_file])
                      ELSE ref_run
    /\ pixel_array' = input_files[choice]
    /\ calls' = calls + 1
    /\ flipped' = FALSE
    /\ decoded' = NotDecoded
    /\ UNCHANGED input_files

\* compressor.decode_image(bin, codes, output, original_size) on the files
\* present; each written (or altered) .bin is decoded once
Decode(original_size) ==
    /\ Len(bin_file) > 0
    /\ decoded.status = "none"
    /\ decoded' = decode_image(bin_file, codes_file, original_size)
    /\ UNCHANGED <<input_files, huffman_codes, huffman_tree, calls, pixel_array,
                   stats, encoded_data, merges, bin_file, codes_file, flipped,
                   ref_run>>

\* the environment: bit i (0-based) of the packed payload of the .bin file is
\* inverted in storage, at most once per written file and before it is decoded
FlipBit(i) ==
    /\ ~flipped
    /\ decoded.status = "none"
    /\ LET at   == 2 + (i \div 8)
           bits == Format08b(bin_file[at])
           k    == (i % 8) + 1
       IN  bin_file' = [bin_file EXCEPT
                           ![at] = BitsToInt([bits EXCEPT ![k] = 1 - bits[k]])]
    /\ flipped' = TRUE
    /\ UNCHANGED <<input_files, huffman_codes, huffman_tree, calls, pixel_array,
                   stats, encoded_data, merges, codes_file, decoded, ref_run>>

Next ==
    \/ NewInstance
    \/ \E choice \in 1 .. Len(input_files) : Compress(choice)
    \/ \E sz \in AnySize : Decode(sz)
    \/ \E i \in 0 .. (8 * (Len(bin_file) - 1) - 1) : FlipBit(i)

\* the codec on one image: compress, storage faults, decode
Spec == Init /\ [][Next]_vars

NextCompress ==
    \/ NewInstance
    \/ \E choice \in 1 .. Len(input_files) : Compress(choice)

\* compress calls over two images, on fresh and on reused instances
SpecTwoFiles == InitTwoFiles /\ [][NextCompress]_vars

(* =============================== claims =============================== *)
\* a compress call has written the files and they are as written
Written == Len(bin_file) > 0 /\ ~flipped
\* decode_image has run on the files as compress wrote them
DecodedIntact == decoded.status # "none" /\ ~flipped

SymbolsOf(pixels) == Range(pixels)

RECURSIVE Flatten(_)
Flatten(rows) == IF Len(rows) = 0 THEN <<>> ELSE rows[1] \o Flatten(Tail(rows))

Count(seq, v) == Cardinality({i \in 1 .. Len(seq) : seq[i] = v})

\* C1: decoding what compress persisted for S, with dimensions whose product
\* is len(S), saves an image whose samples are exactly S.
C1_RoundTrip ==
    (DecodedIntact /\ decoded.size[1] * decoded.size[2] = Len(pixel_array))
        => (decoded.status = "saved" /\ Flatten(decoded.image) = pixel_array)

\* C2: every symbol of the input has a non-empty code, so the encoded bit
\* sequence has at least one bit per sample (also for a single-symbol input).
C2_NonEmptyCodes ==
    calls > 0 =>
        /\ \A v \in SymbolsOf(pixel_array) : Len(Lookup(huffman_codes, v)) >= 1
        /\ Len(encoded_data) >= Len(pixel_array)

\* C3: after build_huffman_tree and generate_huffman_codes every symbol with
\* frequency > 0 has exactly one code, and the code of such a symbol is never a
\* prefix of the code of a different such symbol.
C3_PrefixFree ==
    calls > 0 =>
        /\ \A v \in SymbolsOf(pixel_array) :
               Cardinality({i \in 1 .. Len(huffman_codes) : huffman_codes[i][1] = v}) = 1
        /\ \A v \in SymbolsOf(pixel_array), w \in SymbolsOf(pixel_array) :
               v # w => ~IsPrefix(Lookup(huffman_codes, v), Lookup(huffman_codes, w))
C3_Witness ==
    /\ calls > 0
    /\ Cardinality(SymbolsOf(pixel_array)) = 3
    /\ \E v \in SymbolsOf(pixel_array) : Len(Lookup(huffman_codes, v)) = 2

\* C4: for an encoded bit sequence of length L the padding byte is
\* p = 8 - (L mod 8) (8 when L is a multiple of 8), the payload is the L bits
\* followed by exactly p zero bits in (L + p) / 8 bytes, and decode_image
\* recovers exactly the L bits.
C4_Padding ==
    LET L == Len(encoded_data)
        p == bin_file[1]
    IN  /\ Written =>
            /\ p \in 1 .. 8
            /\ (L + p) % 8 = 0
            /\ (L % 8 = 0) => p = 8
            /\ Len(bin_file) - 1 = (L + p) \div 8
            /\ \A i \in 2 .. Len(bin_file) : bin_file[i] \in 0 .. 255
            /\ \A i \in 1 .. (L + p) :
                   LET byte == bin_file[2 + ((i - 1) \div 8)]
                       bit  == (byte \div (2 ^ (7 - ((i - 1) % 8)))) % 2
                   IN  bit = IF i <= L THEN encoded_data[i] ELSE 0
        /\ DecodedIntact => decoded.binary_data = encoded_data
C4_Witness ==
    /\ DecodedIntact
    /\ Len(encoded_data) = 8
    /\ bin_file[1] = 8
    /\ Len(bin_file) = 3
    /\ decoded.binary_data = encoded_data

\* C5: what a compress call persists is what a new instance would persist for
\* the same input; the code table has no code for a symbol absent from it.
C5_NoSharedState ==
    (calls > 0 /\ Written) =>
        /\ codes_file = compress(NewCodes, pixel_array).codes_file
        /\ bin_file = compress(NewCodes, pixel_array).bin_file
        /\ Keys(huffman_codes) \subseteq SymbolsOf(pixel_array)

C7_TruncatedStream ==
    (decoded.status # "none" /\ Len(decoded.current_code) > 0)
        => decoded.status = "error"

\* C8: when the number of decoded symbols differs from width x height, decoding
\* ends in an error and saves no raster; a saved raster has exactly
\* width x height symbols, all those decoded.
C8_SizeMismatch ==
    decoded.status # "none" =>
        LET n == Len(decoded.pixels)
            wh == decoded.size[1] * decoded.size[2]
        IN  /\ n # wh => (decoded.status = "error" /\ decoded.image = <<>>)
            /\ decoded.status = "saved" =>
                   /\ Len(Flatten(decoded.image)) = wh
                   /\ Flatten(decoded.image) = decoded.pixels
C8_Witness ==
    /\ decoded.status = "error"
    /\ flipped
    /\ Len(decoded.pixels) # Len(pixel_array)
    /\ decoded.size[1] * decoded.size[2] = Len(pixel_array)

RECURSIVE Leaves(_)
Leaves(node) ==
    IF node.value # NoValue THEN <<node.value>>
    ELSE Leaves(node.left[1]) \o Leaves(node.right[1])

RECURSIVE WellFormed(_)
WellFormed(node) ==
    IF Len(node.left) = 0 \/ Len(node.right) = 0
    THEN node.value # NoValue /\ node.left = None /\ node.right = None
    ELSE /\ node.value = NoValue
         /\ Len(node.left) = 1 /\ Len(node.right) = 1
         /\ node.freq = node.left[1].freq + node.right[1].freq
         /\ WellFormed(node.left[1]) /\ WellFormed(node.right[1])

\* the merge removed two nodes of lowest frequency and inserted their sum
TwoLowestMerged(m) ==
    /\ m.left <= m.right
    /\ \E i \in 1 .. Len(m.queue), j \in 1 .. Len(m.queue) :
           /\ i # j /\ m.queue[i] = m.left /\ m.queue[j] = m.right
           /\ \A k \in 1 .. Len(m.queue) : k \notin {i, j} => m.queue[k] >= m.right
    /\ m.sum = m.left + m.right
    /\ Len(m.after) = Len(m.queue) - 1
    /\ \A f \in Range(m.queue) \cup Range(m.after) :
           Count(m.after, f) = Count(m.queue, f)
                               - (IF f = m.left THEN 1 ELSE 0)
                               - (IF f = m.right THEN 1 ELSE 0)
                               + (IF f = m.sum THEN 1 ELSE 0)

\* C9: for k distinct symbols build_huffman_tree makes exactly k - 1 merges, each
\* of the two lowest-frequency nodes in the queue into a node of their summed
\* frequency; the leaves of the root are exactly the k symbols, every internal
\* node has two children, and the root's frequency is the number of samples.
C9_GreedyMerge ==
    calls > 0 =>
        LET k == Cardinality(SymbolsOf(pixel_array))
            root == huffman_tree[1]
        IN  /\ Len(merges) = k - 1
            /\ \A i \in 1 .. Len(merges) : TwoLowestMerged(merges[i])
            /\ Len(Leaves(root)) = k
            /\ Range(Leaves(root)) = SymbolsOf(pixel_array)
            /\ WellFormed(root)
            /\ root.freq = Len(pixel_array)
C9_Witness ==
    /\ calls > 0
    /\ Len(merges) = 2
    /\ merges[1].queue = <<1, 3, 1>>

SameCounts(f, g) ==
    /\ Keys(f) = Keys(g)
    /\ \A v \in Keys(f) : Lookup(f, v) = Lookup(g, v)

\* C10: two inputs with the same count for every symbol, compressed by new
\* instances, get the same code for every symbol.
C10_OrderIndependent ==
    (calls = 1 /\ ref_run # None
        /\ SameCounts(ref_run[1].frequencies, calculate_frequencies(pixel_array)))
        => \A v \in SymbolsOf(pixel_array) :
               Lookup(huffman_codes, v) = Lookup(ref_run[1].huffman_codes, v)

====
